---- MODULE Spec2Model ----
(***************************************************************************)
(* Model of s3-metrics-exporter (src/main.go): main enumerates the         *)
(* account's buckets, launches one goroutine per bucket that paginates the *)
(* bucket's object listing and inserts a BucketInfo into the shared        *)
(* results map under mu, waits on the WaitGroup, and reportStorageSize     *)
(* sums the map and POSTs the report to the Slack webhook.                 *)
(*                                                                         *)
(* The listing client is aws-sdk-go-v2's ListObjectsV2Paginator: a failed  *)
(* NextPage returns (nil, err) and leaves the paginator's firstPage and    *)
(* nextToken untouched.                                                    *)
(***************************************************************************)
EXTENDS Integers, Sequences, FiniteSets, TLC

\* ---- bounds of the model ----
MaxBuckets == 2      \* most buckets ListBuckets returns
MaxPages == 2        \* most pages the listing of one bucket spans

\* ---- program constants ----
GiB == 1073741824    \* math.Pow(1024, 3)
StatusOK == 200      \* the status reportStorageSize accepts
ExitFatal == 1       \* log.Fatalf ends in os.Exit(1)
ExitPanic == 2       \* an unrecovered panic exits with status 2

\* Pages (the object sizes of Contents) the listing service may return.
PageSet == { <<>>, <<724, 5400000>> }
\* Status codes the webhook may answer with.
StatusSet == { StatusOK, 500 }

Tasks == 1..MaxBuckets

VARIABLES
    alive,        \* TRUE while the process runs
    exitCode,     \* the exit status once the process has ended
    pc,           \* position of the main goroutine
    output,       \* output.Buckets: the names ListBuckets returned
    idx,          \* number of iterations of the spawn loop done
    wg,           \* the WaitGroup counter
    mu,           \* the task holding mu, 0 when free
    results,      \* the results map: bucket name -> BucketInfo
    tpc,          \* position of each goroutine
    bucketName,   \* the bucketName argument of each goroutine
    bucketSize,   \* the bucketSize local of each goroutine
    objectsCount, \* the objectsCount local of each goroutine
    firstPage,    \* paginator: no page fetched yet
    nextToken,    \* paginator: continuation token, 0 for nil
    calls,        \* history: the NextPage calls each goroutine made
    totalSizeB,   \* reportStorageSize: the summed size
    text,         \* the %.2f value in the payload text, in hundredths; -1 unset
    posts,        \* history: the POSTs made and the answer to each
    listCalls,    \* history: TRUE once ListBuckets was called
    setupErr,     \* history: the setup call that failed, "none" if none did
    inserts       \* history: the number of inserts each goroutine made

vars == << alive, exitCode, pc, output, idx, wg, mu, results, tpc, bucketName,
           bucketSize, objectsCount, firstPage, nextToken, calls, totalSizeB,
           text, posts, listCalls, setupErr, inserts >>

mainVars == << pc, output, idx, totalSizeB, text, posts, listCalls, setupErr >>
taskVars == << tpc, bucketName, bucketSize, objectsCount, firstPage, nextToken, calls,
              inserts >>

\* ---- helpers ----
RECURSIVE SumSeq(_)
SumSeq(s) == IF s = <<>> THEN 0 ELSE Head(s) + SumSeq(Tail(s))

\* BucketInfo literal of the insert.
BucketInfo(name, size, objects) == [Name |-> name, Size |-> size, Objects |-> objects]

\* The range loop of reportStorageSize over the map.
RECURSIVE SumSizes(_, _)
SumSizes(m, keys) ==
    IF keys = {} THEN 0
    ELSE LET k == CHOOSE x \in keys : TRUE
         IN m[k].Size + SumSizes(m, keys \ {k})

\* Fmt2 with the fraction cut off instead of rounded.
Fmt2_Trunc(b) == (25 * b) \div (GiB \div 4)

\* fmt.Sprintf("%.2f", float64(b) / math.Pow(1024, 3)) in hundredths of a GiB.
\* The division by a power of two is exact in float64 and %.2f rounds the
\* exact value to the nearest hundredth, a tie to the even digit.  100 / 2^30
\* is computed in lowest terms, 25 / 2^28.
Fmt2(b) ==
    LET d == GiB \div 4
        q == (25 * b) \div d
        r == (25 * b) % d
    IN IF 2 * r > d THEN q + 1
       ELSE IF 2 * r < d THEN q
       ELSE IF q % 2 = 0 THEN q ELSE q + 1

\* ListObjectsV2Paginator.HasMorePages
HasMorePages(t) == firstPage[t] \/ nextToken[t] # 0

Init ==
    /\ alive = TRUE
    /\ exitCode = 0
    /\ pc = "LoadConfig"
    /\ output = <<>>
    /\ idx = 0
    /\ wg = 0
    /\ mu = 0
    /\ results = << >>
    /\ tpc = [t \in Tasks |-> "NotStarted"]
    /\ bucketName = [t \in Tasks |-> 0]
    /\ bucketSize = [t \in Tasks |-> 0]
    /\ objectsCount = [t \in Tasks |-> 0]
    /\ firstPage = [t \in Tasks |-> FALSE]
    /\ nextToken = [t \in Tasks |-> 0]
    /\ calls = [t \in Tasks |-> <<>>]
    /\ totalSizeB = 0
    /\ text = -1
    /\ posts = <<>>
    /\ listCalls = FALSE
    /\ setupErr = "none"
    /\ inserts = [t \in Tasks |-> 0]

\* An unrecovered panic or log.Fatalf / return from main: the process ends.
Exit(code) ==
    /\ alive' = FALSE
    /\ exitCode' = code

\* ---- main goroutine ----

\* LoadConfig that does not stop on the error and goes on to list buckets.
LoadConfig_IgnoreErr ==
    /\ alive /\ pc = "LoadConfig"
    /\ \E ok \in BOOLEAN :
         /\ pc' = "ListBuckets"
         /\ setupErr' = IF ok THEN setupErr ELSE "config"
    /\ UNCHANGED << alive, exitCode, output, idx, wg, mu, results, tpc, bucketName,
                    bucketSize, objectsCount, firstPage, nextToken, calls, inserts,
                    totalSizeB, text, posts, listCalls >>

\* config.LoadDefaultConfig; panic(err) on failure.
LoadConfig ==
    /\ alive /\ pc = "LoadConfig"
    /\ \E ok \in BOOLEAN :
         IF ok
         THEN /\ pc' = "ListBuckets"
              /\ UNCHANGED << alive, exitCode, setupErr >>
         ELSE /\ pc' = "Panicked"
              /\ setupErr' = "config"
              /\ Exit(ExitPanic)
    /\ UNCHANGED << output, idx, wg, mu, results, taskVars, totalSizeB, text, posts, listCalls >>

\* s3Client.ListBuckets; panic(err) on failure.
ListBuckets ==
    /\ alive /\ pc = "ListBuckets"
    /\ listCalls' = TRUE
    /\ \E ok \in BOOLEAN :
         IF ok
         THEN /\ \E n \in 0..MaxBuckets : output' = [i \in 1..n |-> i]
              /\ pc' = "Spawn"
              /\ UNCHANGED << alive, exitCode, setupErr >>
         ELSE /\ pc' = "Panicked"
              /\ output' = output
              /\ setupErr' = "list"
              /\ Exit(ExitPanic)
    /\ UNCHANGED << idx, wg, mu, results, taskVars, totalSizeB, text, posts >>

\* Spawn whose goroutines read the bucket from a variable shared with the
\* loop: every running task sees the bucket of the latest iteration.
Spawn_SharedName ==
    /\ alive /\ pc = "Spawn"
    /\ idx < Len(output)
    /\ LET t == idx + 1 IN
         /\ wg' = wg + 1
         /\ idx' = t
         /\ tpc' = [tpc EXCEPT ![t] = "Loop"]
         /\ bucketName' = [u \in Tasks |-> IF u <= t THEN output[t] ELSE bucketName[u]]
         /\ firstPage' = [firstPage EXCEPT ![t] = TRUE]
    /\ UNCHANGED << alive, exitCode, pc, output, mu, results, bucketSize, objectsCount,
                    nextToken, calls, totalSizeB, text, posts, listCalls, setupErr,
                    inserts >>

\* One iteration of the range loop: wg.Add(1) and the go statement, whose
\* arguments are evaluated here.
Spawn ==
    /\ alive /\ pc = "Spawn"
    /\ idx < Len(output)
    /\ LET t == idx + 1 IN
         /\ wg' = wg + 1
         /\ idx' = t
         /\ tpc' = [tpc EXCEPT ![t] = "Loop"]
         /\ bucketName' = [bucketName EXCEPT ![t] = output[t]]
         /\ firstPage' = [firstPage EXCEPT ![t] = TRUE]
    /\ UNCHANGED << alive, exitCode, pc, output, mu, results, bucketSize, objectsCount,
                    nextToken, calls, totalSizeB, text, posts, listCalls, setupErr, inserts >>

\* The range loop is exhausted.
SpawnEnd ==
    /\ alive /\ pc = "Spawn"
    /\ idx = Len(output)
    /\ pc' = "Wait"
    /\ UNCHANGED << alive, exitCode, output, idx, wg, mu, results, taskVars,
                    totalSizeB, text, posts, listCalls, setupErr >>

\* WgWait that returns without looking at the counter.
WgWait_NoBlock ==
    /\ alive /\ pc = "Wait"
    /\ pc' = "Report"
    /\ UNCHANGED << alive, exitCode, output, idx, wg, mu, results, tpc, bucketName,
                    bucketSize, objectsCount, firstPage, nextToken, calls,
                    totalSizeB, text, posts, listCalls, setupErr, inserts >>

\* wg.Wait returns once the counter is zero.
WgWait ==
    /\ alive /\ pc = "Wait"
    /\ wg = 0
    /\ pc' = "Report"
    /\ UNCHANGED << alive, exitCode, output, idx, wg, mu, results, taskVars,
                    totalSizeB, text, posts, listCalls, setupErr >>

\* ---- the goroutine of bucket t (main.go 93-124) ----

\* The page number the paginator asks for next.
PageNo(t) == IF firstPage[t] THEN 1 ELSE nextToken[t] + 1

\* NextPageOk that counts one per page instead of one per object.
NextPageOk_CountPages(t) ==
    /\ alive /\ tpc[t] = "Loop"
    /\ HasMorePages(t)
    /\ \E page \in PageSet, truncated \in BOOLEAN :
         /\ truncated => PageNo(t) < MaxPages
         /\ firstPage' = [firstPage EXCEPT ![t] = FALSE]
         /\ nextToken' = [nextToken EXCEPT ![t] = IF truncated THEN PageNo(t) ELSE 0]
         /\ bucketSize' = [bucketSize EXCEPT ![t] = @ + SumSeq(page)]
         /\ objectsCount' = [objectsCount EXCEPT ![t] = @ + 1]
         /\ calls' = [calls EXCEPT ![t] =
                        Append(@, [no |-> PageNo(t), ok |-> TRUE, page |-> page])]
    /\ UNCHANGED << alive, exitCode, pc, output, idx, totalSizeB, text, posts,
                    listCalls, setupErr, wg, mu, results, tpc, bucketName, inserts >>

\* HasMorePages is true and NextPage succeeds: the paginator advances and the
\* inner loop adds the page's objects to the locals.
NextPageOk(t) ==
    /\ alive /\ tpc[t] = "Loop"
    /\ HasMorePages(t)
    /\ \E page \in PageSet, truncated \in BOOLEAN :
         /\ truncated => PageNo(t) < MaxPages
         /\ firstPage' = [firstPage EXCEPT ![t] = FALSE]
         /\ nextToken' = [nextToken EXCEPT ![t] = IF truncated THEN PageNo(t) ELSE 0]
         /\ bucketSize' = [bucketSize EXCEPT ![t] = @ + SumSeq(page)]
         /\ objectsCount' = [objectsCount EXCEPT ![t] = @ + Len(page)]
         /\ calls' = [calls EXCEPT ![t] =
                        Append(@, [no |-> PageNo(t), ok |-> TRUE, page |-> page])]
    /\ UNCHANGED << alive, exitCode, mainVars, wg, mu, results, tpc, bucketName, inserts >>

\* NextPageErr whose error branch logs and continues, as it would with a
\* non-nil page: the loop tests HasMorePages again on the unchanged paginator.
NextPageErr_Continue(t) ==
    /\ alive /\ tpc[t] = "Loop"
    /\ HasMorePages(t)
    /\ Len(calls[t]) <= MaxPages
    /\ calls' = [calls EXCEPT ![t] =
                   Append(@, [no |-> PageNo(t), ok |-> FALSE, page |-> <<>>])]
    /\ UNCHANGED << alive, exitCode, pc, output, idx, totalSizeB, text, posts,
                    listCalls, setupErr, wg, mu, results, tpc, bucketName,
                    bucketSize, objectsCount, firstPage, nextToken, inserts >>

\* HasMorePages is true and NextPage fails: it returns (nil, err) and leaves
\* the paginator as it was; the error branch evaluates *page.Name on the nil
\* page, which panics before the log call and before the continue.
NextPageErr(t) ==
    /\ alive /\ tpc[t] = "Loop"
    /\ HasMorePages(t)
    /\ calls' = [calls EXCEPT ![t] =
                   Append(@, [no |-> PageNo(t), ok |-> FALSE, page |-> <<>>])]
    /\ tpc' = [tpc EXCEPT ![t] = "Panicking"]
    /\ UNCHANGED << alive, exitCode, mainVars, wg, mu, results, bucketName,
                    bucketSize, objectsCount, firstPage, nextToken, inserts >>

\* HasMorePages is false: the pagination loop ends.
LoopExit(t) ==
    /\ alive /\ tpc[t] = "Loop"
    /\ ~HasMorePages(t)
    /\ tpc' = [tpc EXCEPT ![t] = "Lock"]
    /\ UNCHANGED << alive, exitCode, mainVars, wg, mu, results, bucketName,
                    bucketSize, objectsCount, firstPage, nextToken, calls, inserts >>

\* Lock that does not wait for the mutex to be free.
Lock_NoExclusion(t) ==
    /\ alive /\ tpc[t] = "Lock"
    /\ mu' = t
    /\ tpc' = [tpc EXCEPT ![t] = "Insert"]
    /\ UNCHANGED << alive, exitCode, pc, output, idx, totalSizeB, text, posts,
                    listCalls, setupErr, wg, results, bucketName,
                    bucketSize, objectsCount, firstPage, nextToken, calls, inserts >>

\* mu.Lock
Lock(t) ==
    /\ alive /\ tpc[t] = "Lock"
    /\ mu = 0
    /\ mu' = t
    /\ tpc' = [tpc EXCEPT ![t] = "Insert"]
    /\ UNCHANGED << alive, exitCode, mainVars, wg, results, bucketName,
                    bucketSize, objectsCount, firstPage, nextToken, calls, inserts >>

\* Insert that replaces the map by one holding only the new entry.
Insert_Replace(t) ==
    /\ alive /\ tpc[t] = "Insert"
    /\ results' = [k \in {bucketName[t]} |->
                     BucketInfo(bucketName[t], bucketSize[t], objectsCount[t])]
    /\ inserts' = [inserts EXCEPT ![t] = @ + 1]
    /\ tpc' = [tpc EXCEPT ![t] = "Unlock"]
    /\ UNCHANGED << alive, exitCode, pc, output, idx, totalSizeB, text, posts,
                    listCalls, setupErr, wg, mu, bucketName,
                    bucketSize, objectsCount, firstPage, nextToken, calls >>

\* results[bucketName] = &BucketInfo{...}
Insert(t) ==
    /\ alive /\ tpc[t] = "Insert"
    /\ results' = [k \in DOMAIN results \cup {bucketName[t]} |->
                     IF k = bucketName[t]
                     THEN BucketInfo(bucketName[t], bucketSize[t], objectsCount[t])
                     ELSE results[k]]
    /\ inserts' = [inserts EXCEPT ![t] = @ + 1]
    /\ tpc' = [tpc EXCEPT ![t] = "Unlock"]
    /\ UNCHANGED << alive, exitCode, mainVars, wg, mu, bucketName,
                    bucketSize, objectsCount, firstPage, nextToken, calls >>

\* Unlock that returns without releasing the mutex.
Unlock_NoRelease(t) ==
    /\ alive /\ tpc[t] = "Unlock"
    /\ tpc' = [tpc EXCEPT ![t] = "Defer"]
    /\ UNCHANGED << alive, exitCode, pc, output, idx, totalSizeB, text, posts,
                    listCalls, setupErr, wg, mu, results, bucketName,
                    bucketSize, objectsCount, firstPage, nextToken, calls, inserts >>

\* mu.Unlock, after which the function returns
Unlock(t) ==
    /\ alive /\ tpc[t] = "Unlock"
    /\ mu' = 0
    /\ tpc' = [tpc EXCEPT ![t] = "Defer"]
    /\ UNCHANGED << alive, exitCode, mainVars, wg, results, bucketName,
                    bucketSize, objectsCount, firstPage, nextToken, calls, inserts >>

\* The deferred wg.Done, run on return and also while panicking.
WgDone(t) ==
    /\ alive /\ tpc[t] \in {"Defer", "Panicking"}
    /\ wg' = wg - 1
    /\ tpc' = [tpc EXCEPT ![t] = IF tpc[t] = "Defer" THEN "Returned" ELSE "Fatal"]
    /\ UNCHANGED << alive, exitCode, mainVars, mu, results, bucketName,
                    bucketSize, objectsCount, firstPage, nextToken, calls, inserts >>

\* The panic was not recovered: after the deferred calls the runtime ends
\* the process.
Crash(t) ==
    /\ alive /\ tpc[t] = "Fatal"
    /\ Exit(ExitPanic)
    /\ UNCHANGED << mainVars, wg, mu, results, taskVars >>

\* ---- reportStorageSize (main.go 31-68) ----

\* Sum the sizes of the map and format the text.
ReportSum ==
    /\ alive /\ pc = "Report"
    /\ totalSizeB' = SumSizes(results, DOMAIN results)
    /\ text' = Fmt2(totalSizeB')
    /\ pc' = "NewRequest"
    /\ UNCHANGED << alive, exitCode, output, idx, wg, mu, results, taskVars,
                    posts, listCalls, setupErr >>

\* json.Marshal of the payload (three strings, cannot fail) and
\* http.NewRequest, which fails on a malformed SLACK_WEBHOOK_URL.
NewRequest ==
    /\ alive /\ pc = "NewRequest"
    /\ \E ok \in BOOLEAN :
         IF ok
         THEN /\ pc' = "Do"
              /\ UNCHANGED << alive, exitCode >>
         ELSE /\ pc' = "Fatalf"
              /\ Exit(ExitFatal)
    /\ UNCHANGED << output, idx, wg, mu, results, taskVars, totalSizeB, text,
                    posts, listCalls, setupErr >>

\* Do without the status check: only a transport error is fatal.
Do_NoStatusCheck ==
    /\ alive /\ pc = "Do"
    /\ \E status \in StatusSet \cup {0} :
         /\ posts' = Append(posts, status)
         /\ IF status = 0
            THEN /\ pc' = "Fatalf"
                 /\ Exit(ExitFatal)
            ELSE /\ pc' = "Return"
                 /\ UNCHANGED << alive, exitCode >>
    /\ UNCHANGED << output, idx, wg, mu, results, tpc, bucketName, bucketSize,
                    objectsCount, firstPage, nextToken, calls, totalSizeB, text,
                    listCalls, setupErr, inserts >>

\* client.Do and the status check; 0 stands for a transport error.
Do ==
    /\ alive /\ pc = "Do"
    /\ \E status \in StatusSet \cup {0} :
         /\ posts' = Append(posts, status)
         /\ IF status = 0 \/ status # StatusOK
            THEN /\ pc' = "Fatalf"
                 /\ Exit(ExitFatal)
            ELSE /\ pc' = "Return"
                 /\ UNCHANGED << alive, exitCode >>
    /\ UNCHANGED << output, idx, wg, mu, results, taskVars, totalSizeB, text, listCalls, setupErr >>

\* reportStorageSize and main return: the process ends with status 0.
MainReturn ==
    /\ alive /\ pc = "Return"
    /\ pc' = "Exited"
    /\ Exit(0)
    /\ UNCHANGED << output, idx, wg, mu, results, taskVars, totalSizeB, text,
                    posts, listCalls, setupErr >>

Next ==
    \/ LoadConfig
    \/ ListBuckets
    \/ Spawn
    \/ SpawnEnd
    \/ WgWait
    \/ ReportSum
    \/ NewRequest
    \/ Do
    \/ MainReturn
    \/ \E t \in Tasks : NextPageOk(t)
    \/ \E t \in Tasks : NextPageErr(t)
    \/ \E t \in Tasks : LoopExit(t)
    \/ \E t \in Tasks : Lock(t)
    \/ \E t \in Tasks : Insert(t)
    \/ \E t \in Tasks : Unlock(t)
    \/ \E t \in Tasks : WgDone(t)
    \/ \E t \in Tasks : Crash(t)

Spec == Init /\ [][Next]_vars

\* The Go scheduler runs every runnable goroutine, every call to the listing
\* service and to the webhook returns, and a mutex that is free again and
\* again is eventually acquired by a waiter.
Fairness ==
    /\ WF_vars(LoadConfig) /\ WF_vars(ListBuckets)
    /\ WF_vars(Spawn) /\ WF_vars(SpawnEnd) /\ WF_vars(WgWait)
    /\ WF_vars(ReportSum) /\ WF_vars(NewRequest) /\ WF_vars(Do) /\ WF_vars(MainReturn)
    /\ \A t \in Tasks :
         /\ WF_vars(NextPageOk(t) \/ NextPageErr(t))
         /\ WF_vars(LoopExit(t))
         /\ SF_vars(Lock(t))
         /\ WF_vars(Insert(t)) /\ WF_vars(Unlock(t))
         /\ WF_vars(WgDone(t)) /\ WF_vars(Crash(t))

FairSpec == Spec /\ Fairness

\* ---- state functions used by the properties ----

\* The tasks launched so far and the bucket names they were launched for.
LaunchedTasks == 1..idx
Launched == { output[i] : i \in 1..idx }

\* The main goroutine is past wg.Wait.
PastBarrier == pc \in {"Report", "NewRequest", "Do", "Return", "Exited", "Fatalf"}

\* Task t is between mu.Lock and mu.Unlock.
InCritical(t) == tpc[t] \in {"Insert", "Unlock"}

\* Task t has run its deferred wg.Done.
Signalled(t) == tpc[t] \in {"Returned", "Fatal"}

\* Task t has left the pagination loop by exhaustion.
LoopDone(t) == tpc[t] \in {"Lock", "Insert", "Unlock", "Defer", "Returned"}

\* Task t has executed its insert.
Inserted(t) == tpc[t] \in {"Unlock", "Defer", "Returned"}

\* A NextPage call of task t failed.
Failed(t) == \E i \in 1..Len(calls[t]) : ~calls[t][i].ok

\* All object sizes served to task t, page after page.
RECURSIVE Flatten(_)
Flatten(cs) == IF cs = <<>> THEN <<>> ELSE Head(cs).page \o Flatten(Tail(cs))

\* Sum of s[1..n].
RECURSIVE Prefix(_, _)
Prefix(s, n) == IF n = 0 THEN 0 ELSE Prefix(s, n - 1) + s[n]

\* The sizes in the map, summed task by task.
RECURSIVE SizeOfTasks(_)
SizeOfTasks(n) ==
    IF n = 0 THEN 0
    ELSE SizeOfTasks(n - 1)
         + (IF bucketName[n] \in DOMAIN results THEN results[bucketName[n]].Size ELSE 0)

Abs(x) == IF x < 0 THEN -x ELSE x

\* ---- properties ----

\* The summary task t holds in its locals.
OwnSummary(t) == BucketInfo(bucketName[t], bucketSize[t], objectsCount[t])

\* C1: once the coordinator is past wg.Wait, the results map has exactly one
\* entry per launched bucket and no other key, and each entry is the summary
\* computed by that bucket's own task.
C1_MergedAtBarrier ==
    PastBarrier =>
        /\ DOMAIN results = Launched
        /\ \A t \in LaunchedTasks :
             /\ bucketName[t] \in DOMAIN results
             /\ results[bucketName[t]] = OwnSummary(t)

\* C2: at most one task is between mu.Lock and mu.Unlock, that task holds
\* mu, and no insert is lost: every task that has inserted finds its own
\* summary under its own key.
C2_MutualExclusion ==
    /\ Cardinality({ t \in Tasks : InCritical(t) }) <= 1
    /\ \A t \in Tasks : InCritical(t) => mu = t
    /\ \A t \in Tasks : Inserted(t) =>
         /\ bucketName[t] \in DOMAIN results
         /\ results[bucketName[t]] = OwnSummary(t)

\* C2 witness: one task has written its entry and still holds mu while
\* another task waits at mu.Lock.
C2_Witness ==
    \E t, u \in Tasks :
        /\ t # u
        /\ tpc[t] = "Unlock"
        /\ tpc[u] = "Lock"
        /\ bucketName[t] \in DOMAIN results

\* C3: the report starts only after every launched task has signalled
\* completion, with the spawn loop finished, and no step taken once the
\* coordinator is past the barrier changes the results map.
C3_ReportAfterInserts ==
    /\ [](PastBarrier =>
            /\ idx = Len(output)
            /\ \A t \in LaunchedTasks : Signalled(t))
    /\ [][PastBarrier => results' = results]_vars

\* C3 witness: the report has read the map of two buckets, both inserted.
C3_Witness ==
    /\ pc = "NewRequest"
    /\ idx = 2
    /\ Cardinality(DOMAIN results) = 2

\* C4: when no page fetch failed, a task that has left the pagination loop
\* holds the sum of the sizes of all objects of all pages and their number,
\* and this is what it inserts.
C4_SumAndCount ==
    \A t \in Tasks :
        (LoopDone(t) /\ ~Failed(t)) =>
            /\ bucketSize[t] = Prefix(Flatten(calls[t]), Len(Flatten(calls[t])))
            /\ objectsCount[t] = Len(Flatten(calls[t]))
            /\ Inserted(t) =>
                 /\ results[bucketName[t]].Size = Prefix(Flatten(calls[t]), Len(Flatten(calls[t])))
                 /\ results[bucketName[t]].Objects = Len(Flatten(calls[t]))

\* C4 witness: a task has inserted the summary of two pages, one of them
\* empty, and another task that of an empty bucket.
C4_Witness ==
    \E t, u \in Tasks :
        /\ Inserted(t) /\ Inserted(u)
        /\ Len(calls[t]) = 2
        /\ \E i \in 1..2 : calls[t][i].page = <<>>
        /\ results[bucketName[t]].Objects = 2
        /\ results[bucketName[u]] = BucketInfo(bucketName[u], 0, 0)

\* The pages task t was served before its first failed call.
RECURSIVE BeforeFailure(_)
BeforeFailure(cs) ==
    IF cs = <<>> \/ ~Head(cs).ok THEN <<>> ELSE <<Head(cs)>> \o BeforeFailure(Tail(cs))

\* C5: if the fetch of page k fails, the task's resulting summary is the sum
\* and count of pages 1..k-1, and no page is requested after the failure.
C5_PartialSummary ==
    \A t \in Tasks :
        (Failed(t) /\ Signalled(t)) =>
            /\ ~calls[t][Len(calls[t])].ok
            /\ bucketName[t] \in DOMAIN results
            /\ LET sizes == Flatten(BeforeFailure(calls[t]))
               IN results[bucketName[t]] =
                    BucketInfo(bucketName[t], Prefix(sizes, Len(sizes)), Len(sizes))

\* C6: a page-fetch failure never aborts the process: no run in which a
\* fetch failed ends with the exit status of a panic.
C6_FailureNonFatal ==
    (\E t \in Tasks : Failed(t)) => ~(~alive /\ exitCode = ExitPanic)

\* C7: no page of a bucket is requested twice, and a failed call is the
\* last call its task makes.
C7_NoRetry ==
    \A t \in Tasks :
        /\ \A i, j \in 1..Len(calls[t]) : i # j => calls[t][i].no # calls[t][j].no
        /\ \A i \in 1..Len(calls[t]) : ~calls[t][i].ok => i = Len(calls[t])

\* C7 witness: the fetch of a bucket's second page failed and its task has
\* moved on past the failure.
C7_Witness ==
    \E t \in Tasks :
        /\ Len(calls[t]) = 2
        /\ ~calls[t][2].ok
        /\ tpc[t] = "Fatal"

\* C8: at report time the key set of the results map is the set of launched
\* buckets, whether or not a page fetch failed.
C8_KeySetComplete ==
    pc \in {"Report", "NewRequest", "Do", "Return"} =>
        \A t \in LaunchedTasks : bucketName[t] \in DOMAIN results

\* C9: the report total is the sum of the sizes of all entries of the map,
\* and the value in the text is that total over 1024^3 to two decimals: a
\* whole number of hundredths at most half a hundredth away.
C9_ReportTotal ==
    text # -1 =>
        /\ totalSizeB = SizeOfTasks(idx)
        /\ text >= 0
        /\ 2 * Abs(text * (GiB \div 4) - 25 * totalSizeB) <= GiB \div 4

\* C9 witness: the report of two buckets whose total rounds up.
C9_Witness ==
    /\ text # -1
    /\ Cardinality(DOMAIN results) = 2
    /\ text * (GiB \div 4) > 25 * totalSizeB

\* C10: at most one POST per run, made only after the total was computed; an
\* answer other than 200 or a transport error ends the process with a
\* non-zero status without another POST; exit status 0 only after a 200.
C10_SingleDelivery ==
    /\ Len(posts) <= 1
    /\ posts # <<>> => text # -1
    /\ (posts # <<>> /\ posts[1] # StatusOK) => (~alive /\ exitCode # 0)
    /\ (~alive /\ exitCode = 0) => posts = <<StatusOK>>

\* C10 witness: the webhook answered 500 and the process ended with status 1.
C10_Witness ==
    /\ posts = <<500>>
    /\ ~alive
    /\ exitCode = ExitFatal

\* C11: a failed setup call ends the process at once with the status of a
\* panic: after a failed config resolution no listing call was made, after
\* either failure no task was launched, no page was requested, nothing was
\* inserted or summed and nothing was posted.
C11_SetupFailFast ==
    /\ setupErr = "config" => ~listCalls
    /\ setupErr # "none" =>
         /\ ~alive
         /\ exitCode = ExitPanic
         /\ idx = 0
         /\ \A t \in Tasks : tpc[t] = "NotStarted" /\ calls[t] = <<>>
         /\ results = << >>
         /\ text = -1
         /\ posts = <<>>

\* C11 witness: bucket enumeration failed after the config was resolved.
C11_Witness ==
    /\ setupErr = "list"
    /\ listCalls
    /\ ~alive

\* C12: when setup succeeded and the request could be built, the process
\* ends only after every launched task has signalled completion and the
\* notification was issued, also when page fetches fail.
C12_EndsAfterNotification ==
    (~alive /\ setupErr = "none" /\ ~(pc = "Fatalf" /\ posts = <<>>)) =>
        /\ \A t \in LaunchedTasks : Signalled(t)
        /\ PastBarrier
        /\ posts # <<>>

\* C13: the tasks are those of the identifiers the loop has passed, one
\* each; a task's bucketName is the identifier of its own iteration and
\* never changes, and the entry it inserts is keyed and named by it.
C13_OwnArgument ==
    /\ [](/\ idx <= Len(output)
          /\ \A t \in Tasks :
               IF t \in LaunchedTasks
               THEN tpc[t] # "NotStarted" /\ bucketName[t] = output[t]
               ELSE tpc[t] = "NotStarted" /\ calls[t] = <<>> /\ inserts[t] = 0)
    /\ [][\A t \in Tasks : tpc[t] # "NotStarted" => bucketName'[t] = bucketName[t]]_vars
    /\ [][\A t \in Tasks : inserts'[t] # inserts[t] =>
            /\ DOMAIN results' = DOMAIN results \cup {output[t]}
            /\ results'[output[t]].Name = output[t]]_vars

\* C13 witness: the first task has inserted under its own name while the
\* loop has launched the second task, which has not fetched anything yet.
C13_Witness ==
    /\ idx = 2
    /\ tpc[2] = "Loop" /\ calls[2] = <<>>
    /\ Inserted(1)
    /\ DOMAIN results = {output[1]}

\* C14: a task that has signalled completion has made exactly one insert.
C14_OneInsertBeforeSignal ==
    \A t \in Tasks : Signalled(t) => inserts[t] = 1

\* C15: mu is held only between mu.Lock and mu.Unlock of the holder: a task
\* that fetches, waits, panics or has returned does not hold it, no page is
\* requested by the holder, and a task at mu.Lock finds mu free whenever no
\* other task is inside the insert.
C15_LockOnlyAroundInsert ==
    /\ [](mu # 0 => InCritical(mu))
    /\ [](\A t \in Tasks : ~InCritical(t) => mu # t)
    /\ [](\A u \in Tasks :
            (tpc[u] = "Lock" /\ \A t \in Tasks \ {u} : ~InCritical(t)) => mu = 0)
    /\ [][\A t \in Tasks : calls'[t] # calls[t] => (mu # t /\ mu' # t)]_vars

\* C15 witness: a task inserts and holds mu while another task is in the
\* middle of its pagination with a fetch outstanding.
C15_Witness ==
    \E t, u \in Tasks :
        /\ tpc[t] = "Loop" /\ Len(calls[t]) >= 1 /\ HasMorePages(t)
        /\ tpc[u] = "Unlock" /\ mu = u
        /\ inserts[u] = 1

\* C16: no step removes or changes an entry of the results map, an insert
\* touches no key but its task's own, and the steps of the main goroutine,
\* the report among them, leave the map as it is.
C16_SummaryImmutable ==
    /\ [][\A k \in DOMAIN results :
            k \in DOMAIN results' /\ results'[k] = results[k]]_vars
    /\ [][\A t \in Tasks : inserts'[t] # inserts[t] =>
            \A k \in DOMAIN results' \ {bucketName[t]} :
                k \in DOMAIN results /\ results'[k] = results[k]]_vars
    /\ [][(pc' # pc \/ totalSizeB' # totalSizeB \/ text' # text)
            => results' = results]_vars

\* C16 witness: the second entry has just been inserted next to the first
\* one, whose task has returned and whose entry is as it was written.
C16_Witness ==
    \E t, u \in Tasks :
        /\ t # u
        /\ tpc[t] = "Returned"
        /\ tpc[u] = "Unlock"
        /\ Len(calls[t]) >= 1 /\ objectsCount[t] > 0
        /\ results[bucketName[t]] = OwnSummary(t)
        /\ bucketName[u] \in DOMAIN results

====
